---- MODULE Spec2Model ----
(***************************************************************************)
(* Model of src/src/inet/socket.c (Simba), the blocking socket layer on    *)
(* top of the lwIP callback API.                                           *)
(*                                                                         *)
(* One socket and the one user thread that owns it.  The user thread       *)
(* issues the public calls one after another; every call goes through      *)
(* tcpip_call, which records the argument record and the thread in the     *)
(* socket, posts a closure to the lwIP thread and suspends.  The lwIP      *)
(* thread runs the posted closures in FIFO order, interleaved with the     *)
(* callbacks the stack fires (packet arrival, segment arrival, EOF, sent   *)
(* acknowledgement, connection completion).                                *)
(***************************************************************************)
EXTENDS Integers, Sequences, FiniteSets, TLC

\* ------------------------------------------------------------- constants

SOCKET_TYPE_STREAM == 1
SOCKET_TYPE_DGRAM == 2
SOCKET_TYPE_RAW == 3

STATE_IDLE == 0
STATE_RECVFROM == 1
STATE_ACCEPT == 2
STATE_SENDTO == 3

ERR_OK == 0
ERR_MEM == -1
ERR_CONN == -13

\* The non-OK err_t values a stack call may return (ERR_MEM, ERR_USE).
StackErrs == {ERR_MEM, -8}

\* ----------------------------------------------------------------- bounds

\* Largest size a sendto/recvfrom is called with.
MaxSize == 2
\* Largest datagram, raw packet or stream segment the stack delivers.
MaxLen == 2
\* Number of datagrams / raw packets that arrive.
MaxPkts == 2
\* Number of bytes the stream peer sends.
MaxStream == 2
\* Size of the stack's send buffer of a stream PCB.
SndBuf == 1
\* Closures that may be posted and not yet run.
MaxQueue == 1
MaxConns == 2
MaxInits == 2

\* The counters of struct module_t.
Counters == {"udp_rx_bytes", "udp_tx_bytes", "tcp_accepts", "tcp_rx_bytes",
             "tcp_tx_bytes", "raw_rx_bytes", "raw_tx_bytes"}

\* The addresses packets arrive from.
Peers == {[ip |-> 1, port |-> 5001], [ip |-> 2, port |-> 5002]}

VARIABLES
    sock,    \* struct socket_t: type, pcb_p, cb.state, input.recvfrom.*
    args,    \* the record cb.args_p points to (in the caller's frame)
    ubuf,    \* what has been copied into the caller's receive buffer
    thrd,    \* the user thread (cb.thrd_p): scheduling state, err, return value
    queue,   \* closures posted to the lwIP thread, not yet run
    polled,  \* the socket's channel has a poll reader (base.reader_p)
    stack,   \* the lwIP side: packets delivered, bytes unacknowledged, ...
    call,    \* the public call in progress or last returned
    ev,      \* the last step of the lwIP thread
    rx,      \* the datagram or raw packet most recently handed to a recvfrom
    urecv,   \* the stream recvfrom calls so far: n bytes returned, and
             \* whether (ok) they were bytes 1..n of the peer's stream
    eofret,  \* a stream recvfrom has returned 0
    fault,   \* the run is followed no further: a null dereference trapped,
             \* or a dead frame was written through a dangling cb.args_p
    module   \* struct module_t: initialized, and for every counter how often
             \* it has been initialised and registered; how often the stack
             \* has been initialised

\* ev is the step the lwIP thread has just taken; the steps of the other
\* threads reset it.  args is reset when the call returns and its frame is
\* gone.
vars == <<sock, args, ubuf, thrd, queue, polled, stack, call, ev, rx, urecv,
          eofret, fault, module>>

\* ---------------------------------------------------------------- helpers

MIN(a, b) == IF a < b THEN a ELSE b

\* A NULL struct pbuf pointer, and a pbuf with its tot_len and payload.
NULLPBUF == [id |-> 0, tot_len |-> -1, payload |-> <<>>]

Pbuf(id, bytes) == [id |-> id, tot_len |-> Len(bytes), payload |-> bytes]

\* The payload of arriving packet number id: every byte names its packet
\* and its offset.
Payload(id, len) == [i \in 1..len |-> 10 * id + i]

\* pbuf_copy_partial(pbuf_p, buf_p, len, offset)
pbuf_copy_partial(p, len, offset) ==
    SubSeq(p.payload, offset + 1, MIN(offset + len, p.tot_len))

\* The first n bytes of the caller's buffer; what was never written is 0.
Take(buf, n) == [i \in 1..n |-> IF i <= Len(buf) THEN buf[i] ELSE 0]

\* The record of the stream bytes returned, after a recvfrom has returned
\* bytes: they continue the peer's stream (whose i-th byte is i) or not.
Returned(u, bytes) ==
    IF u.ok /\ bytes = [i \in 1..Len(bytes) |-> u.n + i]
    THEN [n |-> u.n + Len(bytes), ok |-> TRUE]
    ELSE [n |-> 0, ok |-> FALSE]

\* A step of the lwIP thread: the function, the path it took, whether it
\* resumed the recorded thread and with what, its call of
\* fs_counter_increment (counter "none": no call), and the byte count it
\* passed to tcp_recved (0: no call).
EvC(name, path, resumed, res, counter, by) ==
    [name |-> name, path |-> path, resumed |-> resumed, res |-> res,
     counter |-> counter, by |-> by, recved |-> 0]

Ev(name, path, resumed, res) ==
    EvC(name, path, resumed, res, "none", 0)

\* No step of the lwIP thread: the last step was one of another thread.
NoEv == Ev("none", "none", FALSE, 0)

NoArgs == [kind |-> "null", size |-> 0, left |-> 0, remote |-> FALSE]

\* The argument record is live while the caller is inside the call that set
\* cb.args_p; send_to_args_t and recv_from_args_t have the same layout.
ArgsOk(kinds) == thrd.st # "running" /\ args.kind \in kinds

\* What a read through a dangling (or wrongly typed) cb.args_p may yield.
GarbageArgs ==
    [kind : {"garbage"}, size : 0..MaxSize, left : 0..MaxSize, remote : BOOLEAN]

ReadArgs(kinds) == IF ArgsOk(kinds) THEN {args} ELSE GarbageArgs

\* --------------------------------------------------------------- init()

\* init(self_p, type, pcb_p)
init(s, type, pcb_p) ==
    [s EXCEPT !.type = type,
              !.pcb = pcb_p,
              !.state = STATE_IDLE,
              !.pbuf = NULLPBUF,
              !.left = 0]

\* The socket_t the caller of socket_accept passes as accepted_p, before
\* anything has been stored into it: it is of no type.
NoSocket ==
    [type |-> 0, pcb |-> NULLPBUF, state |-> STATE_SENDTO,
     pbuf |-> NULLPBUF, left |-> -1]

\* ------------------------------------------------------ thread rendezvous

\* thrd_resume_isr(thrd_p, res): a suspended thread becomes ready with res;
\* any other thread is marked resumed, and its next thrd_suspend returns at
\* once with the stored result.
thrd_resume_isr(t, res) ==
    IF t.st = "suspended"
    THEN [t EXCEPT !.st = "ready", !.err = res,
                   !.wakes = MIN(t.wakes + 1, 2)]
    ELSE [t EXCEPT !.resumed = TRUE, !.err = res,
                   !.wakes = MIN(t.wakes + 1, 2)]

\* resume_thrd, were it to resume only a thread that is suspended already.
resume_thrd_if_suspended(t, res) ==
    IF t.st = "suspended" THEN thrd_resume_isr(t, res) ELSE t

\* resume_thrd(thrd_p, res): thrd_resume_isr under sys_lock.
resume_thrd(t, res) ==
    thrd_resume_isr(t, res)

\* resume_if_polled(socket_p): the value of base.reader_p afterwards.
resume_if_polled(p) == IF p THEN FALSE ELSE p

Init ==
    /\ sock = [type |-> 0, pcb |-> FALSE, state |-> STATE_IDLE,
               pbuf |-> NULLPBUF, left |-> 0, remote |-> [ip |-> 0, port |-> 0]]
    /\ args = NoArgs
    /\ ubuf = <<>>
    /\ thrd = [st |-> "running", resumed |-> FALSE, err |-> 0, ret |-> 0,
               wakes |-> 0]
    /\ queue = <<>>
    /\ polled = FALSE
    /\ stack = [arrivals |-> 0, rcvd |-> 0, eof |-> FALSE, unacked |-> 0,
                connecting |-> FALSE, used |-> FALSE, listening |-> FALSE,
                conns |-> 0, accepted |-> NoSocket, closed |-> FALSE]
    /\ call = [op |-> "none", size |-> 0, returned |-> TRUE]
    /\ ev = NoEv
    /\ rx = [id |-> 0, len |-> 0, prev |-> 0]
    /\ urecv = [n |-> 0, ok |-> TRUE]
    /\ eofret = FALSE
    /\ fault = FALSE
    /\ module = [initialized |-> FALSE,
                 counters |-> [c \in Counters |-> [inits |-> 0, regs |-> 0]],
                 tcpip |-> 0]

\* ------------------------------------------------------------- user side

\* tcpip_call(self_p, callback, args_p), up to the thrd_suspend.
tcpip_call(op, callback, a) ==
    /\ ~fault
    /\ UNCHANGED module
    /\ thrd.st = "running"
    /\ ~stack.closed
    /\ Len(queue) < MaxQueue
    /\ args' = a
    /\ queue' = Append(queue, callback)
    /\ thrd' = [thrd EXCEPT !.st = "called", !.wakes = 0, !.ret = 0,
                            !.err = IF thrd.resumed THEN thrd.err ELSE 0]
    /\ call' = [op |-> op, size |-> a.size, returned |-> FALSE]
    /\ ubuf' = <<>>
    /\ ev' = NoEv
    /\ UNCHANGED <<sock, polled, stack, rx, urecv, eofret, fault>>

\* A public call that returns res without posting a closure.
ReturnAtOnce(op, res) ==
    /\ ~fault
    /\ UNCHANGED module
    /\ thrd.st = "running"
    /\ ~stack.closed
    /\ thrd' = [thrd EXCEPT !.ret = res, !.wakes = 0]
    /\ call' = [op |-> op, size |-> 0, returned |-> TRUE]
    /\ ev' = NoEv
    /\ UNCHANGED <<sock, args, ubuf, queue, polled, stack, rx, urecv,
                   eofret, fault>>

\* thrd_suspend(NULL) at the end of tcpip_call.
thrd_suspend ==
    /\ ~fault
    /\ UNCHANGED module
    /\ thrd.st = "called"
    /\ thrd' = IF thrd.resumed
               THEN [thrd EXCEPT !.st = "ready", !.resumed = FALSE]
               ELSE [thrd EXCEPT !.st = "suspended"]
    /\ ev' = NoEv
    /\ UNCHANGED <<sock, args, ubuf, queue, polled, stack, call, rx,
                   urecv, eofret, fault>>

\* The resumed thread runs again: thrd_suspend, tcpip_call and the public
\* call return thrd_p->err.
thrd_return ==
    /\ ~fault
    /\ UNCHANGED module
    /\ thrd.st = "ready"
    /\ thrd' = [thrd EXCEPT !.st = "running", !.ret = thrd.err]
    /\ call' = [call EXCEPT !.returned = TRUE]
    /\ urecv' = IF sock.type = SOCKET_TYPE_STREAM /\ call.op = "recvfrom"
                   /\ thrd.err > 0
                THEN Returned(urecv, Take(ubuf, thrd.err))
                ELSE urecv
    /\ eofret' = (eofret \/ (sock.type = SOCKET_TYPE_STREAM
                             /\ call.op = "recvfrom" /\ thrd.err = 0))
    /\ args' = NoArgs
    /\ ev' = NoEv
    /\ UNCHANGED <<sock, ubuf, queue, polled, stack, rx, fault>>

\* socket_module_init(), called again without the check of
\* module.initialized.
socket_module_init_again(m) ==
    [initialized |-> TRUE,
     counters |-> [c \in Counters |->
                      [inits |-> MIN(m.counters[c].inits + 1, MaxInits),
                       regs |-> MIN(m.counters[c].regs + 1, MaxInits)]],
     tcpip |-> MIN(m.tcpip + 1, MaxInits)]

\* socket_module_init(): the module afterwards.  The first call initialises
\* and registers every counter and initialises the stack; a later call
\* returns at once.
socket_module_init_res(m) ==
    IF m.initialized
    THEN m
    ELSE [initialized |-> TRUE,
          counters |-> [c \in Counters |->
                           [inits |-> MIN(m.counters[c].inits + 1, MaxInits),
                            regs |-> MIN(m.counters[c].regs + 1, MaxInits)]],
          tcpip |-> MIN(m.tcpip + 1, MaxInits)]

\* socket_module_init() called by the user thread; it returns 0.
socket_module_init ==
    /\ ~fault
    /\ thrd.st = "running"
    /\ module' = socket_module_init_res(module)
    /\ thrd' = [thrd EXCEPT !.ret = 0, !.wakes = 0]
    /\ call' = [op |-> "module_init", size |-> 0, returned |-> TRUE]
    /\ ev' = NoEv
    /\ UNCHANGED <<sock, args, ubuf, queue, polled, stack, rx, urecv,
                   eofret, fault>>

socket_open_tcp ==
    /\ module.initialized
    /\ sock.type = 0
    /\ tcpip_call("open_tcp", "tcp_open_cb", NoArgs)

socket_open_udp ==
    /\ module.initialized
    /\ sock.type = 0
    /\ tcpip_call("open_udp", "udp_open_cb", NoArgs)

socket_open_raw ==
    /\ module.initialized
    /\ sock.type = 0
    /\ tcpip_call("open_raw", "raw_open_cb", NoArgs)

\* socket_listen has been called on the socket: it listens, or
\* tcp_listen_cb is in the queue.  Such a socket is used for accept and
\* close only.
Listener ==
    \/ stack.listening
    \/ \E i \in 1..Len(queue) : queue[i] = "tcp_listen_cb"

\* socket_bind(self_p, local_addr_p)
socket_bind ==
    /\ sock.type # 0
    /\ ~Listener
    /\ IF sock.type = SOCKET_TYPE_STREAM
       THEN tcpip_call("bind", "tcp_bind_cb", [NoArgs EXCEPT !.kind = "addr"])
       ELSE IF sock.type = SOCKET_TYPE_DGRAM
       THEN tcpip_call("bind", "udp_bind_cb", [NoArgs EXCEPT !.kind = "addr"])
       ELSE ReturnAtOnce("bind", -1)

\* socket_connect(self_p, remote_addr_p)
socket_connect ==
    /\ sock.type # 0
    /\ ~Listener
    /\ IF sock.type = SOCKET_TYPE_STREAM
       THEN tcpip_call("connect", "tcp_connect_cb",
                       [NoArgs EXCEPT !.kind = "addr"])
       ELSE IF sock.type = SOCKET_TYPE_DGRAM
       THEN tcpip_call("connect", "udp_connect_cb",
                       [NoArgs EXCEPT !.kind = "addr"])
       ELSE ReturnAtOnce("connect", -1)

\* socket_sendto(self_p, buf_p, size, flags, remote_addr_p) and, with a null
\* remote_addr_p, socket_write: tcp_send_to, udp_send_to, raw_send_to.
socket_sendto ==
    /\ sock.type # 0
    /\ ~Listener
    /\ \E size \in 1..MaxSize, remote \in BOOLEAN :
        IF sock.type = SOCKET_TYPE_STREAM
        THEN tcpip_call("sendto", "tcp_send_to_cb",
                        [kind |-> "send", size |-> size, left |-> size,
                         remote |-> FALSE])
        ELSE IF sock.type = SOCKET_TYPE_DGRAM
        THEN tcpip_call("sendto", "udp_send_to_cb",
                        [kind |-> "send", size |-> size, left |-> 0,
                         remote |-> remote])
        ELSE tcpip_call("sendto", "raw_send_to_cb",
                        [kind |-> "send", size |-> size, left |-> 0,
                         remote |-> remote])

\* socket_recvfrom(self_p, buf_p, size, flags, remote_addr_p) and, with a
\* null remote_addr_p, socket_read: tcp_recv_from, udp_recv_from,
\* raw_recv_from.
socket_recvfrom ==
    /\ sock.type # 0
    /\ ~Listener
    /\ \E size \in 1..MaxSize, remote \in BOOLEAN :
        IF sock.type = SOCKET_TYPE_STREAM
        THEN tcpip_call("recvfrom", "tcp_recv_from_cb",
                        [kind |-> "recv", size |-> size, left |-> size,
                         remote |-> remote])
        ELSE IF sock.type = SOCKET_TYPE_DGRAM
        THEN tcpip_call("recvfrom", "udp_recv_from_cb",
                        [kind |-> "recv", size |-> size, left |-> 0,
                         remote |-> remote])
        ELSE tcpip_call("recvfrom", "raw_recv_from_cb",
                        [kind |-> "recv", size |-> size, left |-> size,
                         remote |-> remote])

\* socket_close(self_p)
socket_close ==
    /\ sock.type # 0
    /\ IF sock.type = SOCKET_TYPE_STREAM
       THEN tcpip_call("close", "tcp_close_cb", NoArgs)
       ELSE IF sock.type = SOCKET_TYPE_DGRAM
       THEN tcpip_call("close", "udp_close_cb", NoArgs)
       ELSE tcpip_call("close", "raw_close_cb", NoArgs)

\* socket_listen(self_p, backlog), on a stream socket that has not been
\* connected: tcp_listen_with_backlog takes a PCB in the closed state.
socket_listen ==
    /\ sock.type # 0
    /\ IF sock.type = SOCKET_TYPE_STREAM
       THEN /\ ~Listener
            /\ ~stack.connecting
            /\ ~stack.used
            /\ ~stack.eof
            /\ stack.rcvd = 0
            /\ stack.unacked = 0
            /\ sock.pbuf = NULLPBUF
            /\ sock.state = STATE_IDLE
            /\ tcpip_call("listen", "tcp_listen_cb",
                          [NoArgs EXCEPT !.kind = "backlog"])
       ELSE ReturnAtOnce("listen", -1)

\* socket_accept(self_p, accepted_p, addr_p): tcp_accept, whatever the type
\* of the socket is; remote is whether addr_p is not null.  A stream socket
\* is one that listens.
socket_accept ==
    /\ sock.type # 0
    /\ sock.type = SOCKET_TYPE_STREAM => Listener
    /\ \E remote \in BOOLEAN :
        tcpip_call("accept", "tcp_accept_cb",
                   [kind |-> "accept", size |-> 0, left |-> 0,
                    remote |-> remote])

\* socket_size(self_p) on the socket s: input.common.left != 0.
socket_size(s) == IF s.left # 0 THEN 1 ELSE 0

\* Another thread starts polling the socket's channel (chan_poll sets
\* base.reader_p).
chan_poll ==
    /\ ~fault
    /\ UNCHANGED module
    /\ sock.type # 0
    /\ ~stack.closed
    /\ ~polled
    /\ polled' = TRUE
    /\ ev' = NoEv
    /\ UNCHANGED <<sock, args, ubuf, thrd, queue, stack, call, rx, urecv,
                   eofret, fault>>

\* ----------------------------------------------------------- lwIP thread

\* The step of the lwIP thread that runs the closure at the head of the queue.
Closure(callback) ==
    /\ ~fault
    /\ UNCHANGED module
    /\ queue # <<>>
    /\ Head(queue) = callback
    /\ queue' = Tail(queue)

\* The result of a stack call that can fail.
StackResults == {ERR_OK} \cup StackErrs

\* ------------------------------------------------------- datagram adapter

\* udp_recv_from_copy_resume without the clamp to the datagram's length.
udp_recv_from_copy_resume_size_unclamped(a, p) ==
    a.size

\* udp_recv_from_copy_resume: the byte count the caller is resumed with.
udp_recv_from_copy_resume_size(a, p) ==
    IF a.size > p.tot_len THEN p.tot_len ELSE a.size

\* udp_recv_from_copy_resume(socket_p, pbuf_p): copy, free, resume.
udp_recv_from_copy_resume(p) ==
    \E a \in ReadArgs({"recv", "send"}) :
        LET size == udp_recv_from_copy_resume_size(a, p) IN
        /\ ubuf' = IF ArgsOk({"recv", "send"})
                   THEN pbuf_copy_partial(p, size, 0) ELSE ubuf
        /\ rx' = [id |-> p.id, len |-> p.tot_len, prev |-> rx.id]
        /\ thrd' = resume_thrd(thrd, size)
        /\ fault' = ~ArgsOk({"recv", "send"})
        /\ ev' = EvC("udp_recv_from_copy_resume", "done", TRUE, size,
                     "udp_rx_bytes", size)

\* on_udp_recv with a packet held, were it to notify the poll reader and
\* record the new packet's length instead of only freeing the packet.
on_udp_recv_held_notify ==
    /\ sock' = [sock EXCEPT !.left = 0]
    /\ polled' = resume_if_polled(polled)
    /\ ev' = Ev("on_udp_recv", "drop", FALSE, 0)
    /\ UNCHANGED <<args, ubuf, thrd, rx, fault>>

\* on_udp_recv(arg_p, pcb_p, pbuf_p, addr_p, port), with a packet held: the
\* new packet is freed.
on_udp_recv_held ==
    /\ ev' = Ev("on_udp_recv", "drop", FALSE, 0)
    /\ UNCHANGED <<sock, args, ubuf, thrd, polled, rx, fault>>

\* on_udp_recv with the slot empty, were it to store the packet and notify
\* the poll reader whatever the wait state.
on_udp_recv_empty_poll_first(p, peer) ==
    /\ sock' = [sock EXCEPT !.remote = peer,
                            !.pbuf = p,
                            !.left = p.tot_len]
    /\ polled' = resume_if_polled(polled)
    /\ ev' = Ev("on_udp_recv", "store", FALSE, 0)
    /\ UNCHANGED <<args, ubuf, thrd, rx, fault>>

\* on_udp_recv with the slot empty.
on_udp_recv_empty(p, peer) ==
    IF sock.state = STATE_RECVFROM
    THEN /\ sock' = [sock EXCEPT !.remote = peer,
                                 !.state = STATE_IDLE,
                                 !.pbuf = NULLPBUF]
         /\ udp_recv_from_copy_resume(p)
         /\ UNCHANGED <<args, polled>>
    ELSE /\ sock' = [sock EXCEPT !.remote = peer,
                                 !.pbuf = p,
                                 !.left = p.tot_len]
         /\ polled' = resume_if_polled(polled)
         /\ ev' = Ev("on_udp_recv", "store", FALSE, 0)
         /\ UNCHANGED <<args, ubuf, thrd, rx, fault>>

\* The stack delivers a datagram to the PCB's receive callback.
on_udp_recv ==
    /\ ~fault
    /\ UNCHANGED module
    /\ sock.type = SOCKET_TYPE_DGRAM
    /\ ~stack.closed
    /\ stack.arrivals < MaxPkts
    /\ \E len \in 0..MaxLen, peer \in Peers :
        LET id == stack.arrivals + 1
            p == Pbuf(id, Payload(id, len))
        IN  IF sock.pbuf # NULLPBUF
            THEN on_udp_recv_held
            ELSE on_udp_recv_empty(p, peer)
    /\ stack' = [stack EXCEPT !.arrivals = stack.arrivals + 1]
    /\ UNCHANGED <<queue, call, urecv, eofret>>

udp_open_cb ==
    /\ Closure("udp_open_cb")
    /\ \E pcb_p \in BOOLEAN :
        IF pcb_p
        THEN /\ sock' = init(sock, SOCKET_TYPE_DGRAM, TRUE)
             /\ polled' = FALSE
             /\ thrd' = resume_thrd(thrd, 0)
             /\ ev' = Ev("udp_open_cb", "done", TRUE, 0)
        ELSE /\ thrd' = resume_thrd(thrd, -1)
             /\ ev' = Ev("udp_open_cb", "err", TRUE, -1)
             /\ UNCHANGED <<sock, polled>>
    /\ UNCHANGED <<args, ubuf, stack, call, rx, urecv, eofret, fault>>

\* udp_bind_cb and udp_connect_cb: resume with the stack's status.
udp_addr_cb(callback) ==
    /\ Closure(callback)
    /\ \E res \in StackResults :
        /\ thrd' = resume_thrd(thrd, res)
        /\ ev' = Ev(callback, IF res = ERR_OK THEN "done" ELSE "err", TRUE, res)
    /\ UNCHANGED <<sock, args, ubuf, polled, stack, call, rx, urecv, eofret,
                   fault>>

udp_bind_cb == udp_addr_cb("udp_bind_cb")

udp_connect_cb == udp_addr_cb("udp_connect_cb")

\* udp_send_to_cb: the value the caller is resumed with, given whether
\* pbuf_alloc succeeded and what udp_sendto or udp_send returned.
udp_send_to_res(a, alloc, sent) ==
    IF ~alloc THEN -1 ELSE IF sent # ERR_OK THEN -1 ELSE a.size

\* udp_send_to_cb, were it to add its result to udp_tx_bytes whatever the
\* result is.
udp_send_to_count_res(a, res) ==
    [counter |-> "udp_tx_bytes", by |-> res]

\* udp_send_to_cb: its call of fs_counter_increment, made only when the
\* result is positive.
udp_send_to_count(a, res) ==
    IF res > 0
    THEN [counter |-> "udp_tx_bytes", by |-> a.size]
    ELSE [counter |-> "none", by |-> 0]

udp_send_to_cb ==
    /\ Closure("udp_send_to_cb")
    /\ \E a \in ReadArgs({"send", "recv"}), alloc \in BOOLEAN,
          sent \in StackResults :
        LET res == udp_send_to_res(a, alloc, sent) IN
        /\ thrd' = resume_thrd(thrd, res)
        /\ ev' = EvC("udp_send_to_cb",
                     IF alloc /\ sent = ERR_OK THEN "done" ELSE "err", TRUE, res,
                     udp_send_to_count(a, res).counter,
                     udp_send_to_count(a, res).by)
    /\ UNCHANGED <<sock, args, ubuf, polled, stack, call, rx, urecv, eofret,
                   fault>>

udp_recv_from_cb ==
    /\ Closure("udp_recv_from_cb")
    /\ IF sock.pbuf # NULLPBUF
       THEN /\ sock' = [sock EXCEPT !.pbuf = NULLPBUF]
            /\ udp_recv_from_copy_resume(sock.pbuf)
       ELSE /\ sock' = [sock EXCEPT !.state = STATE_RECVFROM]
            /\ ev' = Ev("udp_recv_from_cb", "park", FALSE, 0)
            /\ UNCHANGED <<ubuf, thrd, rx, fault>>
    /\ UNCHANGED <<args, polled, stack, call, urecv, eofret>>

\* udp_close_cb: unregister on_udp_recv, remove the PCB, resume with 0.  A
\* held packet stays where it is.
udp_close_cb ==
    /\ Closure("udp_close_cb")
    /\ stack' = [stack EXCEPT !.closed = TRUE]
    /\ thrd' = resume_thrd(thrd, 0)
    /\ ev' = Ev("udp_close_cb", "done", TRUE, 0)
    /\ UNCHANGED <<sock, args, ubuf, polled, call, rx, urecv, eofret, fault>>

\* ------------------------------------------------------------ raw adapter

\* raw_recv_from_copy_resume: the byte count the caller is resumed with.
raw_recv_from_copy_resume_size(a, p) ==
    IF a.size > p.tot_len THEN p.tot_len ELSE a.size

\* raw_recv_from_copy_resume(socket_p, pbuf_p): copy, free, store the source
\* address through args_p->remote_addr_p without a null check, resume.  The
\* store through a null remote_addr_p either traps or goes unnoticed.
raw_recv_from_copy_resume(p) ==
    \E a \in ReadArgs({"recv", "send"}) :
        LET size == raw_recv_from_copy_resume_size(a, p) IN
        /\ ubuf' = IF ArgsOk({"recv", "send"})
                   THEN pbuf_copy_partial(p, size, 0) ELSE ubuf
        /\ rx' = [id |-> p.id, len |-> p.tot_len, prev |-> rx.id]
        /\ \E trap \in {FALSE, ~a.remote} :
            IF trap
            THEN /\ fault' = TRUE
                 /\ ev' = EvC("raw_recv_from_copy_resume", "fault", FALSE, 0,
                              "raw_rx_bytes", size)
                 /\ UNCHANGED thrd
            ELSE /\ thrd' = resume_thrd(thrd, size)
                 /\ ev' = EvC("raw_recv_from_copy_resume", "done", TRUE, size,
                              "raw_rx_bytes", size)
                 /\ fault' = ~ArgsOk({"recv", "send"})

\* on_raw_recv(arg_p, pcb_p, pbuf_p, addr_p), with a packet held: the new
\* packet is freed.
on_raw_recv_held ==
    /\ ev' = Ev("on_raw_recv", "drop", FALSE, 0)
    /\ UNCHANGED <<sock, args, ubuf, thrd, polled, rx, fault>>

\* on_raw_recv with the slot empty.
on_raw_recv_empty(p, peer) ==
    IF sock.state = STATE_RECVFROM
    THEN /\ sock' = [sock EXCEPT !.remote.ip = peer.ip,
                                 !.state = STATE_IDLE,
                                 !.pbuf = NULLPBUF]
         /\ raw_recv_from_copy_resume(p)
         /\ UNCHANGED <<args, polled>>
    ELSE /\ sock' = [sock EXCEPT !.remote.ip = peer.ip,
                                 !.pbuf = p,
                                 !.left = p.tot_len]
         /\ polled' = resume_if_polled(polled)
         /\ ev' = Ev("on_raw_recv", "store", FALSE, 0)
         /\ UNCHANGED <<args, ubuf, thrd, rx, fault>>

\* The stack delivers an ICMP packet to the PCB's receive callback; the
\* packet starts with its IP header, so it is never empty.
on_raw_recv ==
    /\ ~fault
    /\ UNCHANGED module
    /\ sock.type = SOCKET_TYPE_RAW
    /\ ~stack.closed
    /\ stack.arrivals < MaxPkts
    /\ \E len \in 1..MaxLen, peer \in Peers :
        LET id == stack.arrivals + 1
            p == Pbuf(id, Payload(id, len))
        IN  IF sock.pbuf # NULLPBUF
            THEN on_raw_recv_held
            ELSE on_raw_recv_empty(p, peer)
    /\ stack' = [stack EXCEPT !.arrivals = stack.arrivals + 1]
    /\ UNCHANGED <<queue, call, urecv, eofret>>

\* raw_send_to_cb: the value the caller is resumed with, given whether
\* pbuf_alloc succeeded and what raw_sendto returned.
raw_send_to_res(a, alloc, sent) ==
    IF ~alloc THEN -1 ELSE sent

\* raw_send_to_cb reads args_p->remote_addr_p->ip without a null check: with
\* a null remote_addr_p (socket_write) the read either traps or goes
\* unnoticed.
raw_send_to_cb ==
    /\ Closure("raw_send_to_cb")
    /\ \E a \in ReadArgs({"send", "recv"}), alloc \in BOOLEAN,
          sent \in StackResults :
        LET res == raw_send_to_res(a, alloc, sent) IN
        /\ \E trap \in {FALSE, alloc /\ ~a.remote} :
            IF trap
            THEN /\ fault' = TRUE
                 /\ ev' = Ev("raw_send_to_cb", "fault", FALSE, 0)
                 /\ UNCHANGED thrd
            ELSE /\ thrd' = resume_thrd(thrd, res)
                 /\ ev' = Ev("raw_send_to_cb",
                             IF alloc /\ sent = ERR_OK THEN "done" ELSE "err",
                             TRUE, res)
                 /\ UNCHANGED fault
    /\ UNCHANGED <<sock, args, ubuf, polled, stack, call, rx, urecv, eofret>>

raw_recv_from_cb ==
    /\ Closure("raw_recv_from_cb")
    /\ IF sock.pbuf # NULLPBUF
       THEN /\ sock' = [sock EXCEPT !.pbuf = NULLPBUF]
            /\ raw_recv_from_copy_resume(sock.pbuf)
       ELSE /\ sock' = [sock EXCEPT !.state = STATE_RECVFROM]
            /\ ev' = Ev("raw_recv_from_cb", "park", FALSE, 0)
            /\ UNCHANGED <<ubuf, thrd, rx, fault>>
    /\ UNCHANGED <<args, polled, stack, call, urecv, eofret>>

raw_open_cb ==
    /\ Closure("raw_open_cb")
    /\ \E pcb_p \in BOOLEAN :
        IF pcb_p
        THEN /\ sock' = init(sock, SOCKET_TYPE_RAW, TRUE)
             /\ polled' = FALSE
             /\ thrd' = resume_thrd(thrd, 0)
             /\ ev' = Ev("raw_open_cb", "done", TRUE, 0)
        ELSE /\ thrd' = resume_thrd(thrd, -1)
             /\ ev' = Ev("raw_open_cb", "err", TRUE, -1)
             /\ UNCHANGED <<sock, polled>>
    /\ UNCHANGED <<args, ubuf, stack, call, rx, urecv, eofret, fault>>

\* raw_close_cb: unregister on_raw_recv, remove the PCB, resume with 0.
raw_close_cb ==
    /\ Closure("raw_close_cb")
    /\ stack' = [stack EXCEPT !.closed = TRUE]
    /\ thrd' = resume_thrd(thrd, 0)
    /\ ev' = Ev("raw_close_cb", "done", TRUE, 0)
    /\ UNCHANGED <<sock, args, ubuf, polled, call, rx, urecv, eofret, fault>>

\* --------------------------------------------------------- stream adapter

\* tcp_sndbuf(pcb_p): the room left in the stack's send buffer.
tcp_sndbuf == SndBuf - stack.unacked

\* What tcp_write may return.
WriteResults == {ERR_OK, ERR_MEM}

\* A closure runs on a stream socket whose pcb_p is null (tcp_open_cb never
\* checks tcp_new's result): the stack dereferences the null PCB, which
\* either traps, here, or goes unnoticed, in the closure's own action.
null_pcb_trap ==
    /\ ~fault
    /\ UNCHANGED module
    /\ queue # <<>>
    /\ Head(queue) # "tcp_open_cb"
    /\ sock.type = SOCKET_TYPE_STREAM
    /\ ~sock.pcb
    /\ queue' = Tail(queue)
    /\ fault' = TRUE
    /\ ev' = Ev(Head(queue), "fault", FALSE, 0)
    /\ UNCHANGED <<sock, args, ubuf, thrd, polled, stack, call, rx, urecv,
                   eofret>>

\* tcp_open_cb: tcp_new's result goes unchecked into tcp_arg, tcp_recv and
\* tcp_sent, which store through it; with a null PCB the stores either trap
\* or go unnoticed.  The caller is resumed with 0 in any case.
tcp_open_cb ==
    /\ Closure("tcp_open_cb")
    /\ \E pcb_p \in BOOLEAN :
        /\ \E trap \in {FALSE, ~pcb_p} :
            IF trap
            THEN /\ fault' = TRUE
                 /\ ev' = Ev("tcp_open_cb", "fault", FALSE, 0)
                 /\ UNCHANGED <<sock, polled, thrd>>
            ELSE /\ sock' = init(sock, SOCKET_TYPE_STREAM, pcb_p)
                 /\ polled' = FALSE
                 /\ thrd' = resume_thrd(thrd, 0)
                 /\ ev' = Ev("tcp_open_cb", IF pcb_p THEN "done" ELSE "err",
                             TRUE, 0)
                 /\ UNCHANGED fault
    /\ UNCHANGED <<args, ubuf, stack, call, rx, urecv, eofret>>

\* tcp_bind_cb: resume with the stack's status.
tcp_bind_cb ==
    /\ Closure("tcp_bind_cb")
    /\ \E res \in StackResults :
        /\ thrd' = resume_thrd(thrd, res)
        /\ ev' = Ev("tcp_bind_cb", IF res = ERR_OK THEN "done" ELSE "err",
                    TRUE, res)
    /\ UNCHANGED <<sock, args, ubuf, polled, stack, call, rx, urecv, eofret,
                   fault>>

\* What tcp_connect may return: it accepts only a PCB that has never been
\* connected (one in the stack's state CLOSED).
ConnectResults ==
    IF stack.used \/ stack.connecting THEN StackErrs ELSE StackResults

\* tcp_connect_cb: resume with -1 when tcp_connect fails; otherwise the
\* caller stays parked until on_tcp_connected.
tcp_connect_cb ==
    /\ Closure("tcp_connect_cb")
    /\ \E res \in ConnectResults :
        IF res # ERR_OK
        THEN /\ thrd' = resume_thrd(thrd, -1)
             /\ ev' = Ev("tcp_connect_cb", "err", TRUE, -1)
             /\ UNCHANGED stack
        ELSE /\ stack' = [stack EXCEPT !.connecting = TRUE]
             /\ ev' = Ev("tcp_connect_cb", "park", FALSE, 0)
             /\ UNCHANGED thrd
    /\ UNCHANGED <<sock, args, ubuf, polled, call, rx, urecv, eofret, fault>>

\* on_tcp_connected(arg_p, pcb_p, err): the stack reports the connection
\* established, always with ERR_OK.
on_tcp_connected ==
    /\ ~fault
    /\ UNCHANGED module
    /\ sock.type = SOCKET_TYPE_STREAM
    /\ ~stack.closed
    /\ stack.connecting
    /\ stack' = [stack EXCEPT !.connecting = FALSE, !.used = TRUE]
    /\ thrd' = resume_thrd(thrd, ERR_OK)
    /\ ev' = Ev("on_tcp_connected", "done", TRUE, ERR_OK)
    /\ UNCHANGED <<sock, args, ubuf, queue, polled, call, rx, urecv, eofret,
                   fault>>

\* The body shared by tcp_send_to_cb and on_tcp_sent: write the next chunk
\* (min(left, sndbuf) bytes, sndbuf being the room in the send buffer);
\* idle is whether the state is set to STATE_IDLE on completion, which only
\* on_tcp_sent does.
tcp_write_chunk(name, sndbuf, acked, idle) ==
    \E a \in ReadArgs({"send", "recv"}), w \in WriteResults :
        LET size == MIN(a.left, sndbuf)
            left == a.left - size
        IN
        /\ fault' = ~ArgsOk({"send", "recv"})
        /\ IF w = ERR_OK
           THEN /\ args' = IF ArgsOk({"send", "recv"})
                           THEN [args EXCEPT !.left = left] ELSE args
                /\ stack' = [stack EXCEPT
                                !.unacked = stack.unacked - acked + size,
                                !.used = TRUE]
                /\ IF left = 0
                   THEN /\ sock' = IF idle
                                   THEN [sock EXCEPT !.state = STATE_IDLE]
                                   ELSE sock
                        /\ thrd' = resume_thrd(thrd, a.size)
                        /\ ev' = EvC(name, "done", TRUE, a.size,
                                     "tcp_tx_bytes", a.size)
                   ELSE /\ sock' = [sock EXCEPT !.state = STATE_SENDTO]
                        /\ ev' = Ev(name, "park", FALSE, 0)
                        /\ UNCHANGED thrd
           ELSE /\ stack' = [stack EXCEPT !.unacked = stack.unacked - acked]
                /\ thrd' = resume_thrd(thrd, 0)
                /\ ev' = Ev(name, "err", TRUE, 0)
                /\ UNCHANGED <<sock, args>>

tcp_send_to_cb ==
    /\ Closure("tcp_send_to_cb")
    /\ tcp_write_chunk("tcp_send_to_cb", tcp_sndbuf, 0, FALSE)
    /\ UNCHANGED <<ubuf, polled, call, rx, urecv, eofret>>

\* on_tcp_sent(arg_p, pcb_p, len): the peer has acknowledged len bytes.
\* tcp_close leaves the callback registered, and the stack keeps the PCB
\* until the bytes in flight are acknowledged.
on_tcp_sent ==
    /\ ~fault
    /\ UNCHANGED module
    /\ sock.type = SOCKET_TYPE_STREAM
    /\ sock.pcb
    /\ ~stack.listening
    /\ \E len \in 1..stack.unacked :
        IF sock.state = STATE_SENDTO
        THEN tcp_write_chunk("on_tcp_sent", tcp_sndbuf + len, len, TRUE)
        ELSE /\ stack' = [stack EXCEPT !.unacked = stack.unacked - len]
             /\ ev' = Ev("on_tcp_sent", "none", FALSE, 0)
             /\ UNCHANGED <<sock, args, thrd, fault>>
    /\ UNCHANGED <<ubuf, queue, polled, call, rx, urecv, eofret>>

\* tcp_recv_buffer, were it to copy from the start of the held buffer
\* every time.
tcp_recv_buffer_offset_start(s) ==
    0

\* tcp_recv_buffer: the offset in the held buffer the copy starts at.
tcp_recv_buffer_offset(s) ==
    s.pbuf.tot_len - s.left

\* tcp_recv_buffer(socket_p), on the socket s that holds a buffer: copy
\* min(rx left, args left) bytes, tell the stack and free the buffer when it
\* is used up, resume the reader when its buffer is full.
tcp_recv_buffer(s) ==
    \E a \in ReadArgs({"recv", "send"}) :
        LET size == MIN(s.left, a.left)
            aleft == a.left - size
            sleft == s.left - size
            recved == IF sleft = 0 THEN s.pbuf.tot_len ELSE 0
        IN
        /\ ubuf' = IF ArgsOk({"recv"})
                   THEN ubuf \o pbuf_copy_partial(s.pbuf, size,
                                                  tcp_recv_buffer_offset(s))
                   ELSE ubuf
        /\ args' = IF ArgsOk({"recv", "send"})
                   THEN [args EXCEPT !.left = aleft] ELSE args
        /\ sock' = [s EXCEPT !.left = sleft,
                             !.pbuf = IF sleft = 0 THEN NULLPBUF ELSE s.pbuf,
                             !.state = IF aleft = 0 THEN STATE_IDLE
                                       ELSE STATE_RECVFROM]
        /\ fault' = ~ArgsOk({"recv", "send"})
        /\ IF aleft = 0
           THEN /\ thrd' = resume_thrd(thrd, a.size)
                /\ ev' = [EvC("tcp_recv_buffer", "done", TRUE, a.size,
                              "tcp_rx_bytes", a.size)
                          EXCEPT !.recved = recved]
           ELSE /\ ev' = [Ev("tcp_recv_buffer", "park", FALSE, 0)
                          EXCEPT !.recved = recved]
                /\ UNCHANGED thrd

\* on_tcp_recv with a buffer held, were it to record the peer's close
\* instead of refusing.
on_tcp_recv_held_mark ==
    /\ sock' = [sock EXCEPT !.left = -1]
    /\ ev' = Ev("on_tcp_recv", "refuse", FALSE, ERR_MEM)
    /\ UNCHANGED <<thrd, polled, stack>>

\* on_tcp_recv(arg_p, pcb_p, pbuf_p, err) with a buffer held: the segment,
\* or the notification of the peer's close, is refused with ERR_MEM.
on_tcp_recv_held ==
    /\ ev' = Ev("on_tcp_recv", "refuse", FALSE, ERR_MEM)
    /\ UNCHANGED <<sock, thrd, polled, stack>>

\* on_tcp_recv(arg_p, pcb_p, pbuf_p, err) with a segment.  After tcp_close
\* the stack hands no more segments to the application.
on_tcp_recv_data ==
    /\ ~fault
    /\ UNCHANGED module
    /\ sock.type = SOCKET_TYPE_STREAM
    /\ sock.pcb
    /\ ~stack.listening
    /\ ~stack.closed
    /\ ~stack.eof
    /\ \E len \in 1..MaxLen :
        /\ stack.rcvd + len <= MaxStream
        /\ IF sock.pbuf # NULLPBUF
           THEN /\ on_tcp_recv_held
                /\ UNCHANGED <<args, ubuf, fault>>
           ELSE LET p == Pbuf(0, [i \in 1..len |-> stack.rcvd + i])
                    s == [sock EXCEPT !.pbuf = p, !.left = p.tot_len]
                IN  /\ stack' = [stack EXCEPT !.rcvd = stack.rcvd + len,
                                              !.used = TRUE]
                    /\ IF sock.state = STATE_RECVFROM
                       THEN /\ tcp_recv_buffer(s)
                            /\ UNCHANGED polled
                       ELSE /\ sock' = s
                            /\ polled' = resume_if_polled(polled)
                            /\ ev' = Ev("on_tcp_recv", "store", FALSE, 0)
                            /\ UNCHANGED <<args, ubuf, thrd, fault>>
    /\ UNCHANGED <<queue, call, rx, urecv, eofret>>

\* on_tcp_recv with a null pbuf_p: the peer has closed.
on_tcp_recv_eof ==
    /\ ~fault
    /\ UNCHANGED module
    /\ sock.type = SOCKET_TYPE_STREAM
    /\ sock.pcb
    /\ ~stack.listening
    /\ ~stack.closed
    /\ ~stack.eof
    /\ IF sock.pbuf # NULLPBUF
       THEN on_tcp_recv_held
       ELSE /\ sock' = [sock EXCEPT !.left = -1]
            /\ stack' = [stack EXCEPT !.eof = TRUE, !.used = TRUE]
            /\ IF sock.state = STATE_RECVFROM
               THEN /\ thrd' = resume_thrd(thrd, 0)
                    /\ ev' = Ev("on_tcp_recv", "eof", TRUE, 0)
                    /\ UNCHANGED polled
               ELSE /\ polled' = resume_if_polled(polled)
                    /\ ev' = Ev("on_tcp_recv", "eof", FALSE, 0)
                    /\ UNCHANGED thrd
    /\ UNCHANGED <<args, ubuf, queue, call, rx, urecv, eofret, fault>>

tcp_recv_from_cb ==
    /\ Closure("tcp_recv_from_cb")
    /\ IF sock.left = -1
       THEN /\ thrd' = resume_thrd(thrd, 0)
            /\ ev' = Ev("tcp_recv_from_cb", "eof", TRUE, 0)
            /\ UNCHANGED <<sock, args, ubuf, fault>>
       ELSE IF sock.pbuf # NULLPBUF
       THEN tcp_recv_buffer(sock)
       ELSE /\ sock' = [sock EXCEPT !.state = STATE_RECVFROM]
            /\ ev' = Ev("tcp_recv_from_cb", "park", FALSE, 0)
            /\ UNCHANGED <<args, ubuf, thrd, fault>>
    /\ UNCHANGED <<polled, stack, call, rx, urecv, eofret>>

\* tcp_close_cb: tcp_close, resume with 0.  The callbacks stay registered
\* with the socket as their argument.
tcp_close_cb ==
    /\ Closure("tcp_close_cb")
    /\ stack' = [stack EXCEPT !.closed = TRUE]
    /\ thrd' = resume_thrd(thrd, 0)
    /\ ev' = Ev("tcp_close_cb", "done", TRUE, 0)
    /\ UNCHANGED <<sock, args, ubuf, polled, call, rx, urecv, eofret, fault>>

\* The PCB of the c-th incoming connection, as held in input.accept.pcb_p,
\* which shares its storage with input.recvfrom.pbuf_p.
Pcb(c) == [id |-> -c, tot_len |-> 0, payload |-> <<>>]

\* tcp_listen_cb: replace the PCB by a listening one, empty the accept slot,
\* register on_tcp_accept, resume with 0.  tcp_listen_with_backlog may
\* return null, and tcp_accept then stores through the null PCB, which
\* either traps or goes unnoticed.
tcp_listen_cb ==
    /\ Closure("tcp_listen_cb")
    /\ \E pcb_p \in {sock.pcb, FALSE} :
        /\ \E trap \in {FALSE, ~pcb_p} :
            IF trap
            THEN /\ fault' = TRUE
                 /\ ev' = Ev("tcp_listen_cb", "fault", FALSE, 0)
                 /\ UNCHANGED <<sock, stack, thrd>>
            ELSE /\ sock' = [sock EXCEPT !.pcb = pcb_p,
                                         !.left = 0,
                                         !.pbuf = NULLPBUF]
                 /\ stack' = [stack EXCEPT !.listening = TRUE]
                 /\ thrd' = resume_thrd(thrd, 0)
                 /\ ev' = Ev("tcp_listen_cb", "done", TRUE, 0)
                 /\ UNCHANGED fault
    /\ UNCHANGED <<args, ubuf, polled, call, rx, urecv, eofret>>

\* tcp_accept_resume, were it to leave the PCB in the accept slot.
tcp_accept_resume_keep(s, st) ==
    /\ fault' = ~ArgsOk({"accept"})
    /\ sock' = [s EXCEPT !.left = 0]
    /\ stack' = [st EXCEPT
                    !.accepted = init(NoSocket, SOCKET_TYPE_STREAM, s.pbuf)]
    /\ thrd' = resume_thrd(thrd, 0)
    /\ ev' = EvC("tcp_accept_resume", "done", TRUE, 0, "tcp_accepts", 1)

\* tcp_accept_resume(socket_p) on the socket s whose accept slot is not
\* null, st being the stack before: count the accept, empty the slot,
\* initialise the accepted socket through args_p->accepted_p, resume with
\* 0.  What the slot holds is used as a TCP PCB: when it is a packet
\* (socket_accept on a datagram or raw socket) the stack's stores into it
\* either trap or go unnoticed.
tcp_accept_resume(s, st) ==
    \E trap \in {FALSE, s.pbuf.id >= 0} :
        IF trap
        THEN /\ fault' = TRUE
             /\ sock' = [s EXCEPT !.left = 0, !.pbuf = NULLPBUF]
             /\ stack' = st
             /\ ev' = EvC("tcp_accept_resume", "fault", FALSE, 0,
                          "tcp_accepts", 1)
             /\ UNCHANGED thrd
        ELSE /\ fault' = ~ArgsOk({"accept"})
             /\ sock' = [s EXCEPT !.left = 0, !.pbuf = NULLPBUF]
             /\ stack' = [st EXCEPT
                             !.accepted = init(NoSocket, SOCKET_TYPE_STREAM,
                                               s.pbuf)]
             /\ thrd' = resume_thrd(thrd, 0)
             /\ ev' = EvC("tcp_accept_resume", "done", TRUE, 0,
                          "tcp_accepts", 1)

tcp_accept_cb ==
    /\ Closure("tcp_accept_cb")
    /\ IF sock.pbuf # NULLPBUF
       THEN tcp_accept_resume(sock, stack)
       ELSE /\ sock' = [sock EXCEPT !.state = STATE_ACCEPT]
            /\ ev' = Ev("tcp_accept_cb", "park", FALSE, 0)
            /\ UNCHANGED <<stack, thrd, fault>>
    /\ UNCHANGED <<args, ubuf, polled, call, rx, urecv, eofret>>

\* on_tcp_accept with a connection pending, were it to take the new
\* connection in place of the pending one.
on_tcp_accept_held_replace(c) ==
    /\ sock' = [sock EXCEPT !.left = 1, !.pbuf = Pcb(c)]
    /\ ev' = Ev("on_tcp_accept", "refuse", FALSE, ERR_CONN)
    /\ UNCHANGED <<thrd, polled, fault>>

\* on_tcp_accept(arg_p, new_pcb_p, err), with a connection pending: the
\* new connection c is refused with ERR_CONN.
on_tcp_accept_held(c) ==
    /\ ev' = Ev("on_tcp_accept", "refuse", FALSE, ERR_CONN)
    /\ UNCHANGED <<sock, thrd, polled, fault>>

\* on_tcp_accept with the accept slot empty, st being the stack with the
\* connection c counted.
on_tcp_accept_empty(c, st) ==
    LET s == [sock EXCEPT !.left = 1, !.pbuf = Pcb(c)] IN
    IF sock.state = STATE_ACCEPT
    THEN /\ tcp_accept_resume([s EXCEPT !.state = STATE_IDLE], st)
         /\ UNCHANGED polled
    ELSE /\ sock' = s
         /\ stack' = st
         /\ polled' = resume_if_polled(polled)
         /\ ev' = Ev("on_tcp_accept", "store", FALSE, 0)
         /\ UNCHANGED <<thrd, fault>>

\* on_tcp_recv on the PCB of the pending connection, whose argument is null
\* until the connection is accepted: the segment or the peer's close is
\* refused with ERR_MEM.
on_tcp_recv_pending ==
    /\ ~fault
    /\ UNCHANGED module
    /\ sock.type = SOCKET_TYPE_STREAM
    /\ stack.listening
    /\ ~stack.closed
    /\ sock.pbuf # NULLPBUF
    /\ sock.pbuf.id < 0
    /\ ev' = Ev("on_tcp_recv", "refuse", FALSE, ERR_MEM)
    /\ UNCHANGED <<sock, args, ubuf, thrd, queue, polled, stack, call, rx,
                   urecv, eofret, fault>>

\* The stack reports an incoming connection on the listening PCB.
on_tcp_accept ==
    /\ ~fault
    /\ UNCHANGED module
    /\ sock.type = SOCKET_TYPE_STREAM
    /\ sock.pcb
    /\ stack.listening
    /\ ~stack.closed
    /\ stack.conns < MaxConns
    /\ LET c == stack.conns + 1
           st == [stack EXCEPT !.conns = c]
       IN  IF sock.pbuf # NULLPBUF
           THEN /\ on_tcp_accept_held(c)
                /\ stack' = st
           ELSE on_tcp_accept_empty(c, st)
    /\ UNCHANGED <<args, ubuf, queue, call, rx, urecv, eofret>>

Next ==
    \/ socket_close
    \/ socket_listen
    \/ socket_accept
    \/ udp_close_cb
    \/ raw_close_cb
    \/ tcp_close_cb
    \/ tcp_listen_cb
    \/ tcp_accept_cb
    \/ on_tcp_accept
    \/ on_tcp_recv_pending
    \/ socket_module_init
    \/ socket_open_tcp
    \/ socket_open_udp
    \/ socket_open_raw
    \/ socket_bind
    \/ socket_connect
    \/ socket_sendto
    \/ socket_recvfrom
    \/ chan_poll
    \/ thrd_suspend
    \/ thrd_return
    \/ on_udp_recv
    \/ udp_open_cb
    \/ udp_bind_cb
    \/ udp_connect_cb
    \/ udp_send_to_cb
    \/ udp_recv_from_cb
    \/ on_raw_recv
    \/ raw_send_to_cb
    \/ raw_recv_from_cb
    \/ raw_open_cb
    \/ null_pcb_trap
    \/ tcp_open_cb
    \/ tcp_bind_cb
    \/ tcp_connect_cb
    \/ on_tcp_connected
    \/ tcp_send_to_cb
    \/ on_tcp_sent
    \/ on_tcp_recv_data
    \/ on_tcp_recv_eof
    \/ tcp_recv_from_cb

Spec == Init /\ [][Next]_vars

\* The steps of a socket opened as a datagram or raw socket: the type of a
\* socket is set by the open closure and never changes afterwards.
NextDgram ==
    \/ socket_close
    \/ socket_listen
    \/ socket_accept
    \/ udp_close_cb
    \/ raw_close_cb
    \/ tcp_accept_cb
    \/ socket_module_init
    \/ socket_open_udp
    \/ socket_open_raw
    \/ socket_bind
    \/ socket_connect
    \/ socket_sendto
    \/ socket_recvfrom
    \/ chan_poll
    \/ thrd_suspend
    \/ thrd_return
    \/ on_udp_recv
    \/ udp_open_cb
    \/ udp_bind_cb
    \/ udp_connect_cb
    \/ udp_send_to_cb
    \/ udp_recv_from_cb
    \/ on_raw_recv
    \/ raw_send_to_cb
    \/ raw_recv_from_cb
    \/ raw_open_cb

SpecDgram == Init /\ [][NextDgram]_vars

\* The steps of a stream socket used as a listener: opened, bound, made to
\* listen, accepted on, polled and closed.
NextListen ==
    \/ socket_module_init
    \/ socket_open_tcp
    \/ socket_bind
    \/ socket_listen
    \/ socket_accept
    \/ socket_close
    \/ chan_poll
    \/ thrd_suspend
    \/ thrd_return
    \/ null_pcb_trap
    \/ tcp_open_cb
    \/ tcp_bind_cb
    \/ tcp_listen_cb
    \/ tcp_accept_cb
    \/ on_tcp_accept
    \/ on_tcp_recv_pending
    \/ tcp_close_cb

SpecListen == Init /\ [][NextListen]_vars

\* The steps of the receiving side of a stream socket.
NextRecv ==
    \/ socket_module_init
    \/ socket_open_tcp
    \/ socket_recvfrom
    \/ socket_close
    \/ chan_poll
    \/ thrd_suspend
    \/ thrd_return
    \/ null_pcb_trap
    \/ tcp_open_cb
    \/ on_tcp_recv_data
    \/ on_tcp_recv_eof
    \/ tcp_recv_from_cb
    \/ tcp_close_cb

SpecRecv == Init /\ [][NextRecv]_vars

\* The steps of the inbound side of the three socket types: opening,
\* listening, the blocking reads and accepts, polling, and what the stack
\* delivers.
NextInbound ==
    \/ socket_module_init
    \/ socket_open_tcp
    \/ socket_open_udp
    \/ socket_open_raw
    \/ socket_recvfrom
    \/ socket_listen
    \/ socket_accept
    \/ chan_poll
    \/ thrd_suspend
    \/ thrd_return
    \/ null_pcb_trap
    \/ udp_open_cb
    \/ raw_open_cb
    \/ tcp_open_cb
    \/ udp_recv_from_cb
    \/ raw_recv_from_cb
    \/ tcp_recv_from_cb
    \/ tcp_listen_cb
    \/ tcp_accept_cb
    \/ on_udp_recv
    \/ on_raw_recv
    \/ on_tcp_recv_data
    \/ on_tcp_recv_eof
    \/ on_tcp_accept
    \/ on_tcp_recv_pending

SpecInbound == Init /\ [][NextInbound]_vars

\* The inbound side under a scheduler that lets the user thread run: a
\* thread that has posted its closure reaches thrd_suspend, and a thread
\* that is ready returns from it.
FairInbound ==
    /\ SpecInbound
    /\ WF_vars(thrd_suspend)
    /\ WF_vars(thrd_return)

\* ----------------------------------------------------------- properties

Opens == {"open_tcp", "open_udp", "open_raw"}

\* The public call has returned to the user.
CallReturned(op) == call.op = op /\ call.returned

\* C1 (exactly-once wake-up): between the dispatch of a call and the next
\* dispatch the recorded thread is resumed at most once, so no closure or
\* callback resumes it a second time for the same call or after the call
\* has returned.
C1_ExactlyOnceWakeup ==
    thrd.wakes <= 1

\* C2 (wait state implies a waiting thread): whenever the wait state is not
\* STATE_IDLE the recorded thread is inside a call on the socket, waiting,
\* and cb.args_p points to that call's live argument record; so once the
\* call has returned the wait state is STATE_IDLE.
C2_WaitStateLive ==
    sock.state # STATE_IDLE =>
        /\ thrd.st \in {"called", "suspended"}
        /\ args.kind \in {"send", "recv", "accept"}

\* C3 (error paths): a closure or callback that takes an error path resumes
\* the user with a negative result and leaves the wait state STATE_IDLE.
C3_ErrorPathNegative ==
    ev.path = "err" =>
        /\ ev.resumed
        /\ ev.res < 0
        /\ sock.state = STATE_IDLE

\* C4 (open results): an open call returns 0 when the stack created the PCB,
\* the socket then having the matching type, and returns -1 when the PCB
\* could not be created.
C4_OpenResult ==
    call.op \in Opens /\ call.returned =>
        /\ sock.pcb =>
            /\ thrd.ret = 0
            /\ sock.type = (CASE call.op = "open_tcp" -> SOCKET_TYPE_STREAM
                              [] call.op = "open_udp" -> SOCKET_TYPE_DGRAM
                              [] call.op = "open_raw" -> SOCKET_TYPE_RAW)
        /\ ~sock.pcb => thrd.ret = -1

\* C5 (failure is exactly -1): every returned call has returned a count, 0
\* or exactly -1, and every failure of the stack is handed to the caller as
\* -1.
C5_FailureIsMinusOne ==
    /\ call.returned => thrd.ret >= -1
    /\ ev.path = "err" => ev.res = -1

\* C6 (datagram boundary preservation): a recvfrom on a datagram socket that
\* is handed a datagram of length L returns min(L, size) bytes, the first
\* bytes of that datagram; the receive slot is empty once the datagram has
\* been handed over; and every datagram handed over is a later arrival than
\* the one handed over before it, so no recvfrom sees the tail of a datagram
\* already delivered.
C6_DatagramBoundary ==
    /\ sock.type = SOCKET_TYPE_DGRAM /\ CallReturned("recvfrom") =>
        /\ thrd.ret = MIN(rx.len, call.size)
        /\ ubuf = SubSeq(Payload(rx.id, rx.len), 1, thrd.ret)
    /\ ev.name = "udp_recv_from_copy_resume" =>
        /\ sock.pbuf = NULLPBUF
        /\ sock.state = STATE_IDLE
    /\ sock.type = SOCKET_TYPE_DGRAM /\ rx.id # 0 => rx.id > rx.prev

\* A datagram socket has delivered two datagrams, the second one longer than
\* the buffer of the recvfrom that returned it.
C6_Witness ==
    /\ sock.type = SOCKET_TYPE_DGRAM
    /\ CallReturned("recvfrom")
    /\ rx.prev # 0
    /\ rx.len > call.size
    /\ thrd.ret = call.size

\* C7 (stream byte stream): the bytes the successive stream recvfrom calls
\* have returned are the first bytes of the peer's stream, in order, and
\* once a recvfrom has returned 0 they are all the bytes the adapter
\* accepted from the stack.
C7_ByteStream ==
    /\ urecv.ok
    /\ eofret => urecv.n = stack.rcvd

\* C8 (send count fidelity): a stream or datagram sendto that returns a
\* count returns exactly the size it was called with.
C8_SendCount ==
    /\ sock.type \in {SOCKET_TYPE_STREAM, SOCKET_TYPE_DGRAM}
    /\ CallReturned("sendto")
    /\ thrd.ret > 0
    => thrd.ret = call.size

\* C9 (EOF idempotence): once a stream recvfrom has returned 0 every stream
\* recvfrom that returns, returns 0.
C9_EofIdempotent ==
    /\ sock.type = SOCKET_TYPE_STREAM
    /\ eofret
    /\ CallReturned("recvfrom")
    => thrd.ret = 0

\* C10 (drop-on-full): on a datagram or raw socket that holds a packet, the
\* arrival of a packet is a drop: the held packet, its length, its source
\* address and the wait state are unchanged, and neither the recorded thread
\* nor a poll reader is resumed.
C10_DropOnFull ==
    [][(/\ sock.type \in {SOCKET_TYPE_DGRAM, SOCKET_TYPE_RAW}
        /\ sock.pbuf # NULLPBUF
        /\ stack'.arrivals # stack.arrivals)
       => /\ sock' = sock
          /\ thrd' = thrd
          /\ polled' = polled
          /\ ubuf' = ubuf
          /\ ev'.path = "drop"]_vars

\* A packet has just been dropped while a packet is held and a poll reader
\* is waiting.
C10_Witness ==
    /\ ev.path = "drop"
    /\ sock.pbuf # NULLPBUF
    /\ polled

\* C11 (reject-second-accept): a listening stream socket has one slot for an
\* incoming connection; while a connection is pending there, on_tcp_accept
\* answers a further incoming connection with ERR_CONN and leaves the
\* pending PCB, the wait state, the recorded thread and the poll reader as
\* they are, and no connection is accepted by that step.
C11_RejectSecondAccept ==
    [][(/\ stack.listening
        /\ sock.pbuf # NULLPBUF
        /\ stack'.conns # stack.conns)
       => /\ ev'.name = "on_tcp_accept"
          /\ ev'.res = ERR_CONN
          /\ sock' = sock
          /\ thrd' = thrd
          /\ polled' = polled
          /\ stack'.accepted = stack.accepted]_vars

\* The second incoming connection has just been refused while the first one
\* is pending.
C11_Witness ==
    /\ ev.name = "on_tcp_accept"
    /\ ev.path = "refuse"
    /\ stack.conns = 2
    /\ sock.pbuf = Pcb(1)

\* The socket holds inbound data: a packet or segment that is not empty, or
\* a pending connection.
HoldsInbound ==
    /\ sock.pbuf # NULLPBUF
    /\ (sock.pbuf.id < 0 \/ sock.pbuf.tot_len > 0)

\* C12 (size): on an open socket socket_size returns a non-zero value
\* exactly when the socket holds inbound data, so it returns 0 again once
\* recvfrom has consumed the held packet.
C12_SizeIffInbound ==
    sock.type # 0 => ((socket_size(sock) # 0) <=> HoldsInbound)

\* The callbacks the adapter registers with the stack.
StackCallbacks ==
    {"on_udp_recv", "on_raw_recv", "on_tcp_recv", "on_tcp_sent",
     "on_tcp_accept", "on_tcp_connected"}

\* C13 (close unhooks): once the close closure has run and close has
\* returned, the stack invokes no callback with the socket as its argument.
C13_CloseUnhooks ==
    stack.closed /\ CallReturned("close") => ev.name \notin StackCallbacks

\* C14 (raw sendto): when the stack has accepted the packet of a raw sendto
\* the caller is resumed with size and raw_tx_bytes is increased by size;
\* when the allocation or the send has failed the caller is resumed with -1
\* and no counter is increased.
C14_RawSendto ==
    ev.name = "raw_send_to_cb" =>
        /\ ev.path = "done" =>
            /\ ev.res = call.size
            /\ ev.counter = "raw_tx_bytes"
            /\ ev.by = call.size
        /\ ev.path = "err" =>
            /\ ev.res = -1
            /\ ev.counter = "none"

\* C15 (type-restricted operations): bind and connect on a raw socket, and
\* listen and accept on a datagram or raw socket, return -1 at once, without
\* a closure and without suspending; the wait state of a datagram or raw
\* socket is never STATE_ACCEPT.
C15_TypeRestricted ==
    /\ (sock.type = SOCKET_TYPE_RAW /\ call.op \in {"bind", "connect"})
        => (call.returned /\ thrd.ret = -1)
    /\ (sock.type \in {SOCKET_TYPE_DGRAM, SOCKET_TYPE_RAW}
        /\ call.op \in {"listen", "accept"})
        => (call.returned /\ thrd.ret = -1 /\ queue = <<>>)
    /\ sock.type \in {SOCKET_TYPE_DGRAM, SOCKET_TYPE_RAW}
        => sock.state # STATE_ACCEPT

\* C16 (null remote address): a recvfrom whose remote_addr_p is null is
\* completed without a store through the null pointer, on a socket of every
\* type.
C16_NullRemote ==
    (/\ ev.name \in {"udp_recv_from_copy_resume", "raw_recv_from_copy_resume",
                     "tcp_recv_buffer"}
     /\ thrd.st # "running"
     /\ args.kind = "recv"
     /\ ~args.remote)
    => ev.path # "fault"

\* C17 (held buffer has bytes left): whenever the receive slot holds a
\* buffer, input.recvfrom.left is positive.
C17_HeldHasLeft ==
    sock.pbuf # NULLPBUF => sock.left > 0

\* C18 (idempotent module init): every counter is initialised and
\* registered exactly once and the stack is initialised once, by the first
\* socket_module_init; every call of socket_module_init returns 0, and a
\* later call initialises and registers nothing again.
C18_IdempotentInit ==
    /\ \A c \in Counters :
        /\ module.counters[c].inits = IF module.initialized THEN 1 ELSE 0
        /\ module.counters[c].regs = IF module.initialized THEN 1 ELSE 0
    /\ module.tcpip <= 1
    /\ call.op = "module_init" =>
        /\ call.returned
        /\ thrd.ret = 0
        /\ module.initialized

\* socket_module_init has returned from a call made after a socket was
\* opened, which is a call made on the initialised module.
C18_Witness ==
    /\ CallReturned("module_init")
    /\ sock.type # 0
    /\ module.initialized

\* C19 (counter monotonicity): no counter ever decreases: every call of
\* fs_counter_increment names one of the seven counters and adds an amount
\* that is not negative, and no counter is set back to 0 by a second
\* fs_counter_init.
C19_CounterMonotone ==
    /\ ev.counter \in Counters \cup {"none"}
    /\ ev.by >= 0
    /\ \A c \in Counters : module.counters[c].inits <= 1

\* A connection has just been accepted and counted in tcp_accepts.
C19_Witness ==
    /\ ev.counter = "tcp_accepts"
    /\ ev.by = 1
    /\ stack.accepted.type = SOCKET_TYPE_STREAM
    /\ module.counters["tcp_accepts"].inits = 1

\* C20 (refuse while a buffer is held): on a stream socket whose receive
\* slot holds a buffer, on_tcp_recv refuses a segment or the notification of
\* the peer's close with ERR_MEM: the held buffer, input.recvfrom.left, the
\* wait state, the recorded thread, the poll reader and the caller's buffer
\* are unchanged and nothing is taken from the stack, so the slot never
\* holds more than the one buffer.
C20_RefuseWhileHeld ==
    [][(/\ sock.type = SOCKET_TYPE_STREAM
        /\ sock.pbuf # NULLPBUF
        /\ ev'.name = "on_tcp_recv")
       => /\ ev'.res = ERR_MEM
          /\ sock' = sock
          /\ thrd' = thrd
          /\ polled' = polled
          /\ ubuf' = ubuf
          /\ stack' = stack]_vars

\* A segment or the peer's close has just been refused while a buffer is
\* held and a poll reader is waiting.
C20_Witness ==
    /\ ev.name = "on_tcp_recv"
    /\ ev.path = "refuse"
    /\ sock.pbuf # NULLPBUF
    /\ polled

\* C21 (stream send chunking): when the last chunk of a stream sendto has
\* been written, the caller is resumed with the size it asked for,
\* tcp_tx_bytes is increased by that size, and the wait state is STATE_IDLE.
C21_SendChunking ==
    (/\ ev.name \in {"tcp_send_to_cb", "on_tcp_sent"}
     /\ ev.path = "done"
     /\ call.op = "sendto"
     /\ args.kind = "send"
     /\ thrd.st # "running")
    => /\ ev.res = call.size
       /\ ev.counter = "tcp_tx_bytes"
       /\ ev.by = call.size
       /\ sock.state = STATE_IDLE

\* C22 (stream copy step): a step of tcp_recv_buffer for a thread blocked in
\* recvfrom copies n = min(input.recvfrom.left, args left) bytes of the held
\* buffer, from the offset total length - input.recvfrom.left, to the end of
\* what the caller's buffer holds, and takes n from both counts.  The buffer
\* leaves the slot and tcp_recved is called, with the buffer's total length,
\* exactly when input.recvfrom.left reaches 0.  The caller is resumed, with
\* the size it asked for and the wait state STATE_IDLE, exactly when the
\* args left reach 0; otherwise the wait state is STATE_RECVFROM and the
\* thread is left as it is.
C22_CopyStep ==
    [][(/\ ev'.name = "tcp_recv_buffer"
        /\ call.op = "recvfrom"
        /\ args.kind = "recv"
        /\ thrd.st # "running")
       => LET len == stack'.rcvd - stack.rcvd
              held == IF sock.pbuf # NULLPBUF
                      THEN sock.pbuf
                      ELSE Pbuf(0, [i \in 1..len |-> stack.rcvd + i])
              rleft == IF sock.pbuf # NULLPBUF THEN sock.left ELSE len
              n == IF rleft < args.left THEN rleft ELSE args.left
              from == held.tot_len - rleft
          IN  /\ ubuf' = ubuf \o SubSeq(held.payload, from + 1, from + n)
              /\ args'.left = args.left - n
              /\ sock'.left = rleft - n
              /\ sock'.pbuf = (IF rleft = n THEN NULLPBUF ELSE held)
              /\ ev'.recved = (IF rleft = n THEN held.tot_len ELSE 0)
              /\ IF args.left = n
                 THEN /\ ev'.resumed
                      /\ ev'.res = call.size
                      /\ thrd' = resume_thrd(thrd, call.size)
                      /\ sock'.state = STATE_IDLE
                 ELSE /\ ~ev'.resumed
                      /\ thrd' = thrd
                      /\ sock'.state = STATE_RECVFROM]_vars

\* A recvfrom for one byte has just been completed from the second byte of a
\* segment of two, whose first byte an earlier recvfrom took: the copy
\* started at offset 1 and used the buffer up.
C22_Witness ==
    /\ ev.name = "tcp_recv_buffer"
    /\ ev.path = "done"
    /\ ev.recved = 2
    /\ call.op = "recvfrom"
    /\ call.size = 1
    /\ ubuf = <<2>>
    /\ sock.pbuf = NULLPBUF

\* The stack has handed the socket something inbound in this step: a
\* datagram or raw packet, a segment, the peer's close or a connection.
Arrival ==
    \/ stack'.arrivals # stack.arrivals
    \/ stack'.rcvd # stack.rcvd
    \/ stack'.eof # stack.eof
    \/ stack'.conns # stack.conns

\* The thread is blocked in the public call op: its closure has run
\* without resuming it and nothing has resumed it since.
Blocked(op) ==
    /\ call.op = op
    /\ ~call.returned
    /\ thrd.st \in {"called", "suspended"}
    /\ ~thrd.resumed
    /\ thrd.wakes = 0
    /\ queue = <<>>

\* C23 (poll waiter priority): when something inbound arrives and is taken
\* while a thread is blocked in recvfrom (a packet, a segment, the peer's
\* close) or in accept (a connection), that thread is served (it is given
\* bytes or resumed) and the poll reader is left registered.  The poll
\* reader is only ever resumed by an inbound arrival that was taken while no
\* thread was blocked in the matching call, and its reader slot is cleared
\* by that step.
C23_PollPriority ==
    [][/\ (/\ Arrival
           /\ ev'.path \notin {"drop", "refuse"}
           /\ \/ Blocked("recvfrom") /\ stack'.conns = stack.conns
              \/ Blocked("accept") /\ stack'.conns # stack.conns)
          => /\ ev'.path # "store"
             /\ ev'.resumed \/ ubuf' # ubuf
             /\ ev'.resumed => thrd'.wakes = 1
             /\ polled' = polled
       /\ (polled /\ ~polled')
          => /\ Arrival
             /\ ev'.path \in {"store", "eof"}
             /\ ~ev'.resumed
             /\ thrd' = thrd
             /\ ~(Blocked("recvfrom") /\ stack'.conns = stack.conns)
             /\ ~(Blocked("accept") /\ stack'.conns # stack.conns)]_vars

\* A poll reader is registered and the peer's close has just resumed a
\* thread that was blocked in recvfrom; the poll reader is still registered.
C23_Witness ==
    /\ polled
    /\ ev.name = "on_tcp_recv"
    /\ ev.path = "eof"
    /\ ev.resumed
    /\ thrd.wakes = 1
    /\ call.op = "recvfrom"
    /\ ~call.returned

\* C24 (stream connect): during a connect on a stream socket, a failing
\* tcp_connect makes the closure resume the caller with -1 and leaves no
\* completion callback to come; a successful one leaves the caller without
\* a resume and the wait state STATE_IDLE, and on_tcp_connected then resumes
\* it with the status the stack reports.  The caller is resumed once.
C24_Connect ==
    (/\ sock.type = SOCKET_TYPE_STREAM
     /\ call.op = "connect"
     /\ ~fault)
    => /\ thrd.wakes <= 1
       /\ (ev.name = "tcp_connect_cb" /\ ev.path = "err")
          => /\ ev.resumed
             /\ ev.res = -1
             /\ ~stack.connecting
       /\ (ev.name = "tcp_connect_cb" /\ ev.path = "park")
          => /\ ~ev.resumed
             /\ thrd.wakes = 0
             /\ sock.state = STATE_IDLE
             /\ stack.connecting
       /\ ev.name = "on_tcp_connected"
          => /\ ev.resumed
             /\ ev.res = ERR_OK
       /\ call.returned
          => /\ thrd.wakes = 1
             /\ thrd.ret \in {-1, ERR_OK}

\* C25 (accept hand-off): on a listening stream socket a connection is
\* handed to one accept call, by tcp_accept_cb when it arrived before the
\* accept and by on_tcp_accept when the accept was parked in STATE_ACCEPT.
\* The hand-off counts one in tcp_accepts, empties the accept slot, makes
\* the accepted socket a stream socket on that connection's PCB with wait
\* state STATE_IDLE and an empty receive slot, and resumes the caller once,
\* with 0, which is what accept returns.  A connection that arrives while no
\* accept is parked is kept in the slot.  What on_tcp_recv is given for the
\* pending connection is refused with ERR_MEM and changes nothing.
C25_AcceptHandoff ==
    [][(sock.type = SOCKET_TYPE_STREAM /\ stack.listening)
       => /\ (/\ ev'.name = "tcp_accept_resume"
              /\ call.op = "accept"
              /\ args.kind = "accept"
              /\ thrd.st # "running")
             => LET pcb_p == IF sock.pbuf # NULLPBUF
                             THEN sock.pbuf
                             ELSE Pcb(stack'.conns)
                IN  /\ pcb_p.id < 0
                    /\ stack.accepted.pcb # pcb_p
                    /\ stack'.accepted =
                           [type |-> SOCKET_TYPE_STREAM, pcb |-> pcb_p,
                            state |-> STATE_IDLE, pbuf |-> NULLPBUF,
                            left |-> 0]
                    /\ sock'.pbuf = NULLPBUF
                    /\ sock'.left = 0
                    /\ sock'.state = STATE_IDLE
                    /\ ev'.counter = "tcp_accepts"
                    /\ ev'.by = 1
                    /\ ev'.resumed
                    /\ ev'.res = 0
                    /\ thrd'.wakes = 1
          /\ (stack'.conns # stack.conns /\ sock.pbuf = NULLPBUF)
             => IF sock.state = STATE_ACCEPT
                THEN ev'.name = "tcp_accept_resume"
                ELSE /\ sock'.pbuf = Pcb(stack'.conns)
                     /\ stack'.accepted = stack.accepted
                     /\ thrd' = thrd
          /\ (sock.pbuf # NULLPBUF /\ ev'.name = "on_tcp_recv")
             => /\ ev'.res = ERR_MEM
                /\ sock' = sock
                /\ stack' = stack
                /\ thrd' = thrd
                /\ ubuf' = ubuf
          /\ (call.op = "accept" /\ ~call.returned /\ call'.returned)
             => /\ thrd'.ret = 0
                /\ thrd.wakes = 1
                /\ stack.accepted.type = SOCKET_TYPE_STREAM]_vars

\* The second connection has just been handed to an accept, after the first
\* one was: the accepted socket is on the second connection's PCB and the
\* accept slot is empty.
C25_Witness ==
    /\ ev.name = "tcp_accept_resume"
    /\ ev.path = "done"
    /\ call.op = "accept"
    /\ thrd.wakes = 1
    /\ stack.conns = 2
    /\ stack.accepted.pcb = Pcb(2)
    /\ sock.pbuf = NULLPBUF

\* C26 (no lost wake-up in the dispatcher): a resume stores its result for
\* the thread and leaves the thread ready or, when the thread has not
\* suspended yet, marked as resumed; the thrd_suspend of a thread marked as
\* resumed returns at once; only a resume changes the stored result of a
\* thread that is in a call; the call returns the stored result.  Under a
\* scheduler that lets the user thread run, a thread that was resumed in a
\* call returns from the call.
C26_NoLostWakeup ==
    /\ [][
          /\ (ev'.resumed /\ ~fault')
             => /\ thrd'.err = ev'.res
                /\ thrd'.st # "suspended"
                /\ (thrd.st = "called" => thrd'.resumed)
          /\ (thrd.st = "called" /\ thrd'.st # "called")
             => IF thrd.resumed
                THEN thrd'.st = "ready" /\ thrd'.err = thrd.err
                ELSE thrd'.st = "suspended"
          /\ (thrd.st # "running" /\ thrd'.err # thrd.err)
             => ev'.resumed
          /\ (thrd.st = "ready" /\ thrd'.st = "running")
             => /\ thrd'.ret = thrd.err
                /\ call'.returned
       ]_vars
    /\ (thrd.wakes > 0 /\ ~call.returned) ~> (call.returned \/ fault)

\* The closure resumed the thread before the thread had suspended, and
\* thrd_suspend has just returned at once: the thread is ready without
\* having been parked.
C26_Witness ==
    /\ thrd.st = "ready"
    /\ thrd.wakes = 1
    /\ ~thrd.resumed
    /\ ev = NoEv
    /\ ~polled
    /\ ~call.returned
    /\ call.op = "recvfrom"
    /\ thrd.err > 0

\* C27 (inbound buffer ownership): once close has returned, the socket holds
\* no buffer that was taken from the stack and no PCB of a connection that
\* was not accepted: whatever the slot held has been freed.
C27_BufferOwnership ==
    (stack.closed /\ CallReturned("close")) => sock.pbuf = NULLPBUF

====
